---- MODULE Spec2Model ----
(***************************************************************************)
(* Content catalog server: the relational store behind DatabaseStorage     *)
(* (src/storage.ts), the tables and zod schemas of src/schema.ts and the   *)
(* express handlers of src/routes.ts.                                      *)
(*                                                                         *)
(* JSON scalars are written as tokens: the booleans "true" and "false",    *)
(* "null", the numbers "0" and "7"; every other token is a JSON string.    *)
(* A JSON object is a function from the keys it has to tokens (or to a     *)
(* nested object).  A nullable boolean column holds "true", "false" or     *)
(* "null".                                                                 *)
(***************************************************************************)
EXTENDS Integers, Sequences, FiniteSets, TLC

\* ------------------------------------------------------------------ bounds
MaxContent == 2
MaxViews == 2
MaxEpisodes == 1
MaxFavorites == 2
NumViewers == 2

\* gen_random_uuid(): the n-th content row created gets the n-th fresh id
UUIDs == <<"c1", "c2", "c3", "c4", "c5", "c6">>
ContentIds == {UUIDs[n] : n \in 1..MaxContent}
\* users rows are written by the session login (upsertUser), before any
\* session-protected route runs
Users == {"u1"}
Viewers == 1..NumViewers

ADMIN_PASSWORD == "cla-SAMU20"

VARIABLES content, nextId, episodes, favorites, view, incCalls, resp

vars == <<content, nextId, episodes, favorites, view, incCalls, resp>>

\* ------------------------------------------------------------- JSON tokens
BoolTokens == {"true", "false"}
NumTokens == {"0", "7"}
IsString(v) == v \notin BoolTokens \cup NumTokens \cup {"null"}
IsBoolean(v) == v \in BoolTokens
IsNumber(v) == v \in NumTokens
ToInt(v) == IF v = "7" THEN 7 ELSE 0
\* JavaScript truthiness of a query-string value (a string, or absent)
Truthy(q, k) == k \in DOMAIN q /\ q[k] # ""

\* the characters of a title or of a search term
Chars(s) ==
  CASE s = "Ab" -> <<"A", "b">>
    [] s = "b" -> <<"b">>
    [] s = "a" -> <<"a">>
    [] s = "B" -> <<"B">>
    [] s = "x" -> <<"x">>
    [] OTHER -> <<>>
Lower(c) == CASE c = "A" -> "a" [] c = "B" -> "b" [] OTHER -> c
LowerSeq(s) == [i \in 1..Len(s) |-> Lower(s[i])]
\* title ILIKE '%' || query || '%'
ilike(title, query) ==
  LET t == LowerSeq(Chars(title))
      p == LowerSeq(Chars(query))
  IN \E i \in 0..(Len(t) - Len(p)) : SubSeq(t, i + 1, i + Len(p)) = p

\* ------------------------------------------------------------ sequences
Range(s) == {s[i] : i \in 1..Len(s)}
\* the rows of set S as a sequence, by descending column col; rows that tie
\* come newest first
RECURSIVE OrderByDesc(_, _)
OrderByDesc(S, col) ==
  IF S = {} THEN <<>>
  ELSE LET top == CHOOSE r \in S : \A o \in S :
                    \/ r[col] > o[col]
                    \/ r[col] = o[col] /\ r.createdAt >= o.createdAt
       IN <<top>> \o OrderByDesc(S \ {top}, col)
\* the sum of the values of a function to numbers
RECURSIVE Sum(_)
Sum(f) ==
  IF DOMAIN f = {} THEN 0
  ELSE LET k == CHOOSE x \in DOMAIN f : TRUE
       IN f[k] + Sum([x \in DOMAIN f \ {k} |-> f[x]])
Limit(s, n) == SubSeq(s, 1, IF Len(s) < n THEN Len(s) ELSE n)
PageSize == 20

\* ------------------------------------------------- storage.ts: read queries
Rows(tbl) == {tbl[i] : i \in DOMAIN tbl}

getAllContent(tbl) ==
  OrderByDesc({r \in Rows(tbl) : r.isActive = "true"}, "createdAt")

\* <<>> is undefined, <<r>> the row found
getContentById(tbl, id) ==
  IF id \in DOMAIN tbl /\ tbl[id].isActive = "true" THEN <<tbl[id]>> ELSE <<>>

getContentByType(tbl, type) ==
  OrderByDesc({r \in Rows(tbl) : r.type = type /\ r.isActive = "true"}, "createdAt")

getFeaturedContent(tbl) ==
  Limit(OrderByDesc({r \in Rows(tbl) : r.isFeatured = "true" /\ r.isActive = "true"},
                    "createdAt"), 1)

getPopularContent(tbl) ==
  Limit(OrderByDesc({r \in Rows(tbl) : r.isActive = "true"}, "viewCount"), PageSize)

getNewContent(tbl) ==
  Limit(OrderByDesc({r \in Rows(tbl) : r.isActive = "true"}, "createdAt"), PageSize)

searchContent(tbl, query) ==
  OrderByDesc({r \in Rows(tbl) : r.isActive = "true" /\ ilike(r.title, query)},
              "createdAt")

\* n copies of each element of sequence s, n given per element by count
RECURSIVE Copies(_, _)
Copies(s, count) ==
  IF s = <<>> THEN <<>>
  ELSE [i \in 1..count[Head(s).id] |-> Head(s)] \o Copies(Tail(s), count)

\* fault: the join without the isActive filter
getUserFavorites_noActiveFilter(tbl, fav, userId) ==
  Copies(OrderByDesc(Rows(tbl), "createdAt"),
         [c \in DOMAIN tbl |-> fav[<<userId, c>>]])

\* favorites INNER JOIN content: the result holds a content row once per
\* favorite row that joins it
getUserFavorites(tbl, fav, userId) ==
  Copies(OrderByDesc({r \in Rows(tbl) : r.isActive = "true"}, "createdAt"),
         [c \in DOMAIN tbl |-> fav[<<userId, c>>]])

isFavorite(fav, userId, contentId) ==
  \E k \in DOMAIN fav : k = <<userId, contentId>> /\ fav[k] > 0

\* ---------------------------------------------- schema.ts: content columns
\* the columns of content that a query of this server reads or writes; the
\* other columns (description, videoUrl, year, ...) are nullable text that
\* an insert or update stores as given
ContentDefaults(id, n) ==
  [id |-> id, title |-> "null", type |-> "null", isActive |-> "true",
   isFeatured |-> "false", viewCount |-> 0, createdAt |-> n]

\* an integer column stores a number, the other columns the token itself
Column(k, v) == IF k = "viewCount" THEN ToInt(v) ELSE v

\* ------------------------------------------------------ storage.ts: writes
\* INSERT INTO content: a column the data leaves out takes its default
createContent(tbl, n, data) ==
  LET id == UUIDs[n]
      d == ContentDefaults(id, n)
      row == [k \in DOMAIN d |-> IF k \in DOMAIN data THEN Column(k, data[k]) ELSE d[k]]
  IN [i \in DOMAIN tbl \cup {id} |-> IF i = id THEN row ELSE tbl[i]]

\* UPDATE content SET ...data WHERE id = id: no row matches an unknown id
updateContent(tbl, id, data) ==
  [i \in DOMAIN tbl |->
     IF i = id
     THEN [k \in DOMAIN tbl[i] |->
             IF k \in DOMAIN data THEN Column(k, data[k]) ELSE tbl[i][k]]
     ELSE tbl[i]]

deleteContent(tbl, id) == [i \in DOMAIN tbl \ {id} |-> tbl[i]]

\* fault: the increment without its WHERE clause
incrementViewCount_noWhere(tbl, id) ==
  [i \in DOMAIN tbl |-> [tbl[i] EXCEPT !.viewCount = @ + 1]]

\* UPDATE content SET view_count = view_count + 1 WHERE id = id, one statement
incrementViewCount(tbl, id) ==
  [i \in DOMAIN tbl |->
     IF i = id THEN [tbl[i] EXCEPT !.viewCount = @ + 1] ELSE tbl[i]]

\* episodes.content_id REFERENCES content(id) ON DELETE CASCADE
episodesOnDelete(ep, id) == [c \in DOMAIN ep |-> IF c = id THEN 0 ELSE ep[c]]
\* fault: the reference declared without onDelete: 'cascade'
favoritesOnDelete_noCascade(fav, id) == fav

\* favorites.content_id REFERENCES content(id) ON DELETE CASCADE
favoritesOnDelete(fav, id) == [k \in DOMAIN fav |-> IF k[2] = id THEN 0 ELSE fav[k]]
\* the foreign keys refuse a row whose parent does not exist
episodesForeignKey(tbl, contentId) == contentId \in DOMAIN tbl
favoritesForeignKey(tbl, userId, contentId) ==
  userId \in Users /\ contentId \in DOMAIN tbl

createEpisode(ep, contentId) == [ep EXCEPT ![contentId] = @ + 1]
addToFavorites(fav, userId, contentId) ==
  [fav EXCEPT ![<<userId, contentId>>] = @ + 1]
\* fault: the delete removes a single matching row
removeFromFavorites_oneRow(fav, userId, contentId) ==
  [k \in DOMAIN fav |->
     IF k = <<userId, contentId>> /\ fav[k] > 0 THEN fav[k] - 1 ELSE fav[k]]

\* DELETE FROM favorites WHERE user_id = .. AND content_id = ..: every match
removeFromFavorites(fav, userId, contentId) ==
  [k \in DOMAIN fav |-> IF k = <<userId, contentId>> THEN 0 ELSE fav[k]]

\* --------------------------------------------------- schema.ts: zod schemas
\* fault: the omit list without viewCount
insertContentSchemaKeys_withViewCount ==
  {"title", "type", "isActive", "isFeatured", "viewCount"}

\* createInsertSchema(content).omit({id, createdAt, updatedAt, viewCount}):
\* the keys the schema keeps; z.object strips every other key of the input
insertContentSchemaKeys == {"title", "type", "isActive", "isFeatured"}

Strip(b, keys) == [k \in DOMAIN b \cap keys |-> b[k]]

\* notNull columns without default are required strings; nullable boolean
\* columns are optional and accept null; .partial() makes every key optional
insertContentSchemaOk(b, partial) ==
  /\ partial \/ {"title", "type"} \subseteq DOMAIN b
  /\ "title" \in DOMAIN b => IsString(b.title)
  /\ "type" \in DOMAIN b => IsString(b.type)
  /\ "isActive" \in DOMAIN b => IsBoolean(b.isActive) \/ b.isActive = "null"
  /\ "isFeatured" \in DOMAIN b => IsBoolean(b.isFeatured) \/ b.isFeatured = "null"

insertContentSchemaParse(b) == Strip(b, insertContentSchemaKeys)

\* createInsertSchema(episodes).omit({id, createdAt})
insertEpisodeSchemaOk(b) ==
  /\ {"contentId", "title", "episodeNumber", "videoUrl"} \subseteq DOMAIN b
  /\ IsString(b.contentId) /\ IsString(b.title) /\ IsString(b.videoUrl)
  /\ IsNumber(b.episodeNumber)

\* createInsertSchema(favorites).omit({id, createdAt})
insertFavoriteSchemaOk(b) ==
  /\ {"userId", "contentId"} \subseteq DOMAIN b
  /\ IsString(b.userId) /\ IsString(b.contentId)

\* ------------------------------------------------------ routes.ts: helpers
\* { ...a, ...b }
Spread(a, b) == [k \in DOMAIN a \cup DOMAIN b |-> IF k \in DOMAIN b THEN b[k] ELSE a[k]]

\* fault: the check skipped when no password is submitted
checkAdminPassword_undefinedPasses(body) ==
  "password" \in DOMAIN body => body.password = ADMIN_PASSWORD

\* password !== ADMIN_PASSWORD answers 401; a body without the key has
\* password undefined
checkAdminPassword(body) ==
  "password" \in DOMAIN body /\ body.password = ADMIN_PASSWORD

\* req.body.content || req.body, req.body.episode || req.body
Payload(body, key) == IF key \in DOMAIN body THEN body[key] ELSE body

\* fault: the popular branch tested before the featured branch
selectQuery_popularFirst(q) ==
  IF Truthy(q, "popular") THEN "getPopularContent"
  ELSE IF Truthy(q, "featured") THEN "getFeaturedContent"
  ELSE IF Truthy(q, "new") THEN "getNewContent"
  ELSE IF Truthy(q, "search") /\ q.search # "<array>" THEN "searchContent"
  ELSE IF Truthy(q, "type") /\ q.type \in {"movie", "series"} THEN "getContentByType"
  ELSE "getAllContent"

\* the if / else-if chain of GET /api/content
selectQuery(q) ==
  IF Truthy(q, "featured") THEN "getFeaturedContent"
  ELSE IF Truthy(q, "popular") THEN "getPopularContent"
  ELSE IF Truthy(q, "new") THEN "getNewContent"
  ELSE IF Truthy(q, "search") /\ q.search # "<array>" THEN "searchContent"
  ELSE IF Truthy(q, "type") /\ q.type \in {"movie", "series"} THEN "getContentByType"
  ELSE "getAllContent"

runQuery(tbl, name, q) ==
  CASE name = "getFeaturedContent" -> getFeaturedContent(tbl)
    [] name = "getPopularContent" -> getPopularContent(tbl)
    [] name = "getNewContent" -> getNewContent(tbl)
    [] name = "searchContent" -> searchContent(tbl, q.search)
    [] name = "getContentByType" -> getContentByType(tbl, q.type)
    [] OTHER -> getAllContent(tbl)

Response(route, status, req, query, body) ==
  [route |-> route, status |-> status, req |-> req, query |-> query, body |-> body]

Idle == [pc |-> "idle", id |-> "", content |-> <<>>]

\* ------------------------------------------------------------ request inputs
Passwords == {ADMIN_PASSWORD, "guess"}
\* a payload with and without a password, flat and wrapped under key
AdminBodies(payloads, key) ==
  payloads
  \cup {Spread(b, [password |-> pw]) : b \in payloads, pw \in Passwords}
  \cup {[password |-> pw] @@ (key :> b) : b \in payloads, pw \in Passwords}

ContentPayloads ==
  { [title |-> "Ab", type |-> "movie"],
    [type |-> "movie"],
    [title |-> "7", type |-> "movie"] }

UpdatePayloads == { [isActive |-> "false"], [isFeatured |-> "yes"] }

EpisodePayloads ==
  { [contentId |-> c, title |-> "Ab", episodeNumber |-> "7", videoUrl |-> "v"]
      : c \in ContentIds }
  \cup { [contentId |-> UUIDs[1], title |-> "Ab", episodeNumber |-> "7"] }

FavoriteBodies ==
  { [contentId |-> c] : c \in ContentIds } \cup { [contentId |-> "7"], [title |-> "Ab"] }

\* query strings of GET /api/content: a flag is absent, empty or has a value
QueryStrings ==
  { [featured |-> "1"], [popular |-> "1"], [new |-> "1"], [search |-> "a"],
    [type |-> "movie"], [type |-> "series"], [other |-> "1"],
    [featured |-> "1", popular |-> "1"], [popular |-> "1", new |-> "1"],
    [new |-> "1", search |-> "b"], [search |-> "x", type |-> "movie"],
    [featured |-> "", popular |-> "1"], [search |-> "<array>", type |-> "series"],
    [type |-> "doc"], [search |-> ""], [featured |-> "<array>", search |-> "a"] }

\* -------------------------------------------------------------------- Init
Init ==
  /\ content = [i \in {} |-> 0]
  /\ nextId = 1
  /\ episodes = [c \in ContentIds |-> 0]
  /\ favorites = [k \in Users \X ContentIds |-> 0]
  /\ view = [p \in Viewers |-> Idle]
  /\ incCalls = [c \in ContentIds |-> 0]
  /\ resp = Response("", 0, [none |-> ""], "", <<>>)

\* ------------------------------------------------------- routes.ts: handlers
\* GET /api/content
GetContent(q) ==
  /\ resp' = Response("GET /api/content", 200, q, selectQuery(q),
                      runQuery(content, selectQuery(q), q))
  /\ UNCHANGED <<content, nextId, episodes, favorites, view, incCalls>>

\* GET /api/content/:id up to its first await: storage.getContentById
ViewLookup(p, id) ==
  /\ view[p].pc = "idle"
  /\ LET found == getContentById(content, id)
     IN IF found = <<>>
        THEN /\ resp' = Response("GET /api/content/:id", 404, [id |-> id], "", <<>>)
             /\ UNCHANGED view
        ELSE /\ view' = [view EXCEPT ![p] = [pc |-> "found", id |-> id, content |-> found]]
             /\ UNCHANGED resp
  /\ UNCHANGED <<content, nextId, episodes, favorites, incCalls>>

\* fault: the handler writes back the viewCount it read, plus one
ViewIncrement_readModifyWrite(p) ==
  /\ view[p].pc = "found"
  /\ LET id == view[p].id
     IN /\ id \in DOMAIN content => Sum(incCalls) < MaxViews
        /\ content' = [i \in DOMAIN content |->
                         IF i = id
                         THEN [content[i] EXCEPT
                                 !.viewCount = view[p].content[1].viewCount + 1]
                         ELSE content[i]]
        /\ incCalls' = IF id \in DOMAIN content
                       THEN [incCalls EXCEPT ![id] = @ + 1] ELSE incCalls
        /\ resp' = Response("GET /api/content/:id", 200, [id |-> id], "",
                            view[p].content)
  /\ view' = [view EXCEPT ![p] = Idle]
  /\ UNCHANGED <<nextId, episodes, favorites>>

\* GET /api/content/:id from storage.incrementViewCount to res.json(content)
ViewIncrement(p) ==
  /\ view[p].pc = "found"
  /\ LET id == view[p].id
     IN /\ id \in DOMAIN content => Sum(incCalls) < MaxViews
        /\ content' = incrementViewCount(content, id)
        /\ incCalls' = IF id \in DOMAIN content
                       THEN [incCalls EXCEPT ![id] = @ + 1] ELSE incCalls
        /\ resp' = Response("GET /api/content/:id", 200, [id |-> id], "",
                            view[p].content)
  /\ view' = [view EXCEPT ![p] = Idle]
  /\ UNCHANGED <<nextId, episodes, favorites>>

\* GET /api/favorites
GetFavorites(u) ==
  /\ resp' = Response("GET /api/favorites", 200, [user |-> u], "",
                      getUserFavorites(content, favorites, u))
  /\ UNCHANGED <<content, nextId, episodes, favorites, view, incCalls>>

\* POST /api/favorites: every error, a ZodError too, is answered 500
PostFavorites(u, body) ==
  LET req == [user |-> u, body |-> body]
      parsed == Spread(body, [userId |-> u])
  IN /\ IF ~insertFavoriteSchemaOk(parsed)
        THEN /\ resp' = Response("POST /api/favorites", 500, req, "", <<>>)
             /\ UNCHANGED favorites
        ELSE IF ~favoritesForeignKey(content, u, parsed.contentId)
        THEN /\ resp' = Response("POST /api/favorites", 500, req, "", <<>>)
             /\ UNCHANGED favorites
        ELSE /\ Sum(favorites) < MaxFavorites
             /\ favorites' = addToFavorites(favorites, u, parsed.contentId)
             /\ resp' = Response("POST /api/favorites", 201, req, "", <<>>)
     /\ UNCHANGED <<content, nextId, episodes, view, incCalls>>

\* DELETE /api/favorites/:contentId
DeleteFavorite(u, c) ==
  /\ favorites' = removeFromFavorites(favorites, u, c)
  /\ resp' = Response("DELETE /api/favorites/:contentId", 204,
                      [user |-> u, id |-> c], "", <<>>)
  /\ UNCHANGED <<content, nextId, episodes, view, incCalls>>

\* GET /api/favorites/:contentId/check
CheckFavorite(u, c) ==
  /\ resp' = Response("GET /api/favorites/:contentId/check", 200,
                      [user |-> u, id |-> c], "",
                      <<[isFavorite |-> isFavorite(favorites, u, c)]>>)
  /\ UNCHANGED <<content, nextId, episodes, favorites, view, incCalls>>

\* POST /api/admin/content
AdminCreateContent(body) ==
  LET req == [body |-> body]
      payload == Payload(body, "content")
  IN /\ IF ~checkAdminPassword(body)
        THEN /\ resp' = Response("POST /api/admin/content", 401, req, "", <<>>)
             /\ UNCHANGED <<content, nextId>>
        ELSE IF ~insertContentSchemaOk(payload, FALSE)
        THEN /\ resp' = Response("POST /api/admin/content", 400, req, "", <<>>)
             /\ UNCHANGED <<content, nextId>>
        ELSE /\ nextId <= MaxContent
             /\ content' = createContent(content, nextId, insertContentSchemaParse(payload))
             /\ nextId' = nextId + 1
             /\ resp' = Response("POST /api/admin/content", 201, req, "",
                                 <<content'[UUIDs[nextId]]>>)
     /\ UNCHANGED <<episodes, favorites, view, incCalls>>

\* PUT /api/admin/content/:id
AdminUpdateContent(id, body) ==
  LET req == [id |-> id, body |-> body]
      payload == Payload(body, "content")
  IN /\ IF ~checkAdminPassword(body)
        THEN /\ resp' = Response("PUT /api/admin/content/:id", 401, req, "", <<>>)
             /\ UNCHANGED content
        ELSE IF ~insertContentSchemaOk(payload, TRUE)
        THEN /\ resp' = Response("PUT /api/admin/content/:id", 400, req, "", <<>>)
             /\ UNCHANGED content
        ELSE /\ content' = updateContent(content, id, insertContentSchemaParse(payload))
             /\ resp' = Response("PUT /api/admin/content/:id", 200, req, "",
                                 IF id \in DOMAIN content THEN <<content'[id]>> ELSE <<>>)
     /\ UNCHANGED <<nextId, episodes, favorites, view, incCalls>>

\* DELETE /api/admin/content/:id
AdminDeleteContent(id, body) ==
  LET req == [id |-> id, body |-> body]
  IN /\ IF ~checkAdminPassword(body)
        THEN /\ resp' = Response("DELETE /api/admin/content/:id", 401, req, "", <<>>)
             /\ UNCHANGED <<content, episodes, favorites>>
        ELSE /\ content' = deleteContent(content, id)
             /\ episodes' = episodesOnDelete(episodes, id)
             /\ favorites' = favoritesOnDelete(favorites, id)
             /\ resp' = Response("DELETE /api/admin/content/:id", 204, req, "", <<>>)
     /\ UNCHANGED <<nextId, view, incCalls>>

\* POST /api/admin/episodes
AdminCreateEpisode(body) ==
  LET req == [body |-> body]
      payload == Payload(body, "episode")
  IN /\ IF ~checkAdminPassword(body)
        THEN /\ resp' = Response("POST /api/admin/episodes", 401, req, "", <<>>)
             /\ UNCHANGED episodes
        ELSE IF ~insertEpisodeSchemaOk(payload)
        THEN /\ resp' = Response("POST /api/admin/episodes", 400, req, "", <<>>)
             /\ UNCHANGED episodes
        ELSE IF ~episodesForeignKey(content, payload.contentId)
        THEN /\ resp' = Response("POST /api/admin/episodes", 500, req, "", <<>>)
             /\ UNCHANGED episodes
        ELSE /\ Sum(episodes) < MaxEpisodes
             /\ episodes' = createEpisode(episodes, payload.contentId)
             /\ resp' = Response("POST /api/admin/episodes", 201, req, "", <<>>)
     /\ UNCHANGED <<content, nextId, favorites, view, incCalls>>

\* --------------------------------------------------------- specifications
\* a payload sent with the admin password
Authorized(b) == Spread(b, [password |-> ADMIN_PASSWORD])

\* concurrent GET /api/content/:id requests against admin writes
NextViews ==
  \/ \E p \in Viewers, id \in ContentIds : ViewLookup(p, id)
  \/ \E p \in Viewers : ViewIncrement(p)
  \/ AdminCreateContent(Authorized([title |-> "Ab", type |-> "movie"]))
  \/ \E id \in ContentIds : AdminUpdateContent(id, Authorized([isActive |-> "false"]))
  \/ \E id \in ContentIds : AdminDeleteContent(id, Authorized([none |-> ""]))

SpecViews == Init /\ [][NextViews]_vars

\* the read queries over a catalog under valid admin writes
NextStore ==
  \/ \E q \in {[featured |-> "1"], [popular |-> "1"], [new |-> "1"], [search |-> "a"],
               [type |-> "movie"], [other |-> "1"]} : GetContent(q)
  \/ \E u \in Users : GetFavorites(u)
  \/ \E u \in Users, c \in ContentIds : PostFavorites(u, [contentId |-> c])
  \/ \E b \in {[title |-> "Ab", type |-> "movie"],
               [title |-> "b", type |-> "series", isFeatured |-> "true"]} :
       AdminCreateContent(Authorized(b))
  \/ \E id \in ContentIds, v \in BoolTokens \cup {"null"} :
       AdminUpdateContent(id, Authorized([isActive |-> v]))
  \/ \E id \in ContentIds : AdminDeleteContent(id, Authorized([none |-> ""]))

SpecStore == Init /\ [][NextStore]_vars

\* content rows and the episode and favorite rows that reference them
NextRefs ==
  \/ \E u \in Users, c \in ContentIds : PostFavorites(u, [contentId |-> c])
  \/ \E u \in Users, c \in ContentIds : DeleteFavorite(u, c)
  \/ \E u \in Users, c \in ContentIds : CheckFavorite(u, c)
  \/ AdminCreateContent(Authorized([title |-> "Ab", type |-> "movie"]))
  \/ \E id \in ContentIds : AdminDeleteContent(id, Authorized([none |-> ""]))
  \/ \E c \in ContentIds :
       AdminCreateEpisode(Authorized([contentId |-> c, title |-> "Ab",
                                      episodeNumber |-> "7", videoUrl |-> "v"]))

SpecRefs == Init /\ [][NextRefs]_vars

\* every operation that writes, under valid requests
NextWrites ==
  \/ \E id \in ContentIds : ViewLookup(1, id)
  \/ ViewIncrement(1)
  \/ \E u \in Users, c \in ContentIds : PostFavorites(u, [contentId |-> c])
  \/ \E u \in Users, c \in ContentIds : DeleteFavorite(u, c)
  \/ AdminCreateContent(Authorized([title |-> "Ab", type |-> "movie", viewCount |-> "7"]))
  \/ \E id \in ContentIds, b \in {[viewCount |-> "0"], [title |-> "Ab", viewCount |-> "7"]} :
       AdminUpdateContent(id, Authorized(b))
  \/ \E id \in ContentIds : AdminDeleteContent(id, Authorized([none |-> ""]))
  \/ \E c \in ContentIds :
       AdminCreateEpisode(Authorized([contentId |-> c, title |-> "Ab",
                                      episodeNumber |-> "7", videoUrl |-> "v"]))

SpecWrites == Init /\ [][NextWrites]_vars

\* the body-validating endpoints under every sample body and password
NextAdmin ==
  \/ \E u \in Users, b \in FavoriteBodies : PostFavorites(u, b)
  \/ \E b \in AdminBodies(ContentPayloads, "content") : AdminCreateContent(b)
  \/ \E id \in ContentIds, b \in AdminBodies(UpdatePayloads, "content") :
       AdminUpdateContent(id, b)
  \/ \E id \in ContentIds, b \in AdminBodies({[none |-> ""]}, "content") :
       AdminDeleteContent(id, b)
  \/ \E b \in AdminBodies(EpisodePayloads, "episode") : AdminCreateEpisode(b)

SpecAdmin == Init /\ [][NextAdmin]_vars

\* GET /api/content under every sample query string
NextQuery ==
  \/ \E q \in QueryStrings : GetContent(q)
  \/ \E b \in {[title |-> "Ab", type |-> "movie"],
               [title |-> "b", type |-> "series", isFeatured |-> "true"]} :
       AdminCreateContent(Authorized(b))
  \/ \E id \in ContentIds, v \in BoolTokens :
       AdminUpdateContent(id, Authorized([isActive |-> v]))
  \/ \E id \in ContentIds : AdminDeleteContent(id, Authorized([none |-> ""]))

SpecQuery == Init /\ [][NextQuery]_vars

\* ------------------------------------------------------------------ claims
ContentTypes == {"movie", "series"}
SearchTerms == {"a", "b", "x"}
ListRoutes == {"GET /api/content", "GET /api/favorites"}

\* C1: a content row whose isActive is false is in the result of no read
\* query (all, by type, search, popular, new, featured, by id, favorites of
\* a user), neither as evaluated in any reachable state nor as delivered by
\* a list handler.
C1_InactiveHidden ==
  /\ \A r \in Rows(content) : r.isActive = "false" =>
       /\ r \notin Range(getAllContent(content))
       /\ \A t \in ContentTypes : r \notin Range(getContentByType(content, t))
       /\ \A q \in SearchTerms : r \notin Range(searchContent(content, q))
       /\ r \notin Range(getPopularContent(content))
       /\ r \notin Range(getNewContent(content))
       /\ r \notin Range(getFeaturedContent(content))
       /\ getContentById(content, r.id) = <<>>
       /\ \A u \in Users : r \notin Range(getUserFavorites(content, favorites, u))
  /\ resp.route \in ListRoutes => \A x \in Range(resp.body) : x.isActive # "false"

\* an inactive row that a user has favorited, beside an active row, when the
\* favorites of that user have just been read
C1_Witness ==
  /\ resp.route = "GET /api/favorites"
  /\ resp.body # <<>>
  /\ \E r \in Rows(content) :
       r.isActive = "false" /\ favorites[<<resp.req.user, r.id>>] > 0

\* C2: the viewCount of an existing row equals its initial value 0 plus the
\* number of incrementViewCount statements run on it, under every
\* interleaving of the requests that run them.
C2_NoLostUpdate ==
  \A id \in DOMAIN content : content[id].viewCount = incCalls[id]

\* a request still holds the row as it read it while another request has
\* incremented the row since, and a second increment has landed
C2_Witness ==
  \E id \in DOMAIN content :
    /\ content[id].viewCount = 2
    /\ incCalls[id] = 2
    /\ resp.route = "GET /api/content/:id" /\ resp.status = 200
    /\ resp.req.id = id /\ resp.body[1].viewCount = 0

\* C3: every episode row and every favorite row references an existing
\* content row, in every reachable state and so after deleteContent.
C3_ReferentialIntegrity ==
  /\ \A c \in ContentIds : episodes[c] > 0 => c \in DOMAIN content
  /\ \A k \in DOMAIN favorites : favorites[k] > 0 => k[2] \in DOMAIN content
  /\ (resp.route = "DELETE /api/admin/content/:id" /\ resp.status = 204) =>
       /\ episodes[resp.req.id] = 0
       /\ \A u \in Users : favorites[<<u, resp.req.id>>] = 0

\* a content row has just been deleted while another row keeps its
\* references
C3_Witness ==
  /\ resp.route = "DELETE /api/admin/content/:id" /\ resp.status = 204
  /\ resp.req.id = UUIDs[1] /\ nextId > 1
  /\ Sum(episodes) + Sum(favorites) > 0

\* C4: right after a completed addToFavorites(u, c), isFavorite(u, c) is
\* true; right after a completed removeFromFavorites(u, c) it is false.
C4_FavoriteRoundTrip ==
  /\ (resp.route = "POST /api/favorites" /\ resp.status = 201) =>
       isFavorite(favorites, resp.req.user, resp.req.body.contentId)
  /\ (resp.route = "DELETE /api/favorites/:contentId" /\ resp.status = 204) =>
       ~isFavorite(favorites, resp.req.user, resp.req.id)

\* the same pair has just been added a second time
C4_Witness ==
  /\ resp.route = "POST /api/favorites" /\ resp.status = 201
  /\ favorites[<<resp.req.user, resp.req.body.contentId>>] = 2

AdminRoutes ==
  {"POST /api/admin/content", "PUT /api/admin/content/:id",
   "DELETE /api/admin/content/:id", "POST /api/admin/episodes"}
SubmittedSecret(body) == "password" \in DOMAIN body /\ body.password = ADMIN_PASSWORD

\* C5: an admin request whose submitted password is not the secret is
\* answered 401, and the step that answers 401 leaves the content and
\* episode tables as they were.
C5_BadPasswordRejected ==
  /\ [](resp.route \in AdminRoutes /\ ~SubmittedSecret(resp.req.body)
          => resp.status = 401)
  /\ [][resp'.status = 401 => UNCHANGED <<content, nextId, episodes>>]_vars

\* a valid content payload sent with a wrong password, over a catalog that
\* has a row
C5_Witness ==
  /\ resp.route = "POST /api/admin/content" /\ resp.status = 401
  /\ "password" \in DOMAIN resp.req.body
  /\ insertContentSchemaOk(Payload(resp.req.body, "content"), FALSE)
  /\ DOMAIN content # {}

QueryFlags == <<"featured", "popular", "new", "search", "type">>
QueryOfFlag ==
  [featured |-> "getFeaturedContent", popular |-> "getPopularContent",
   new |-> "getNewContent", search |-> "searchContent", type |-> "getContentByType"]
\* the query of the first flag, in precedence order, that is among given
HighestPrecedence(given) ==
  IF \E i \in 1..Len(QueryFlags) : QueryFlags[i] \in given
  THEN LET i == CHOOSE j \in 1..Len(QueryFlags) :
                  /\ QueryFlags[j] \in given
                  /\ \A k \in 1..(j - 1) : QueryFlags[k] \notin given
       IN QueryOfFlag[QueryFlags[i]]
  ELSE "getAllContent"
Present(q) == DOMAIN q
\* a flag counts when its value is not empty; search must be one string and
\* type must be movie or series
Usable(q) ==
  {k \in DOMAIN q :
     /\ q[k] # ""
     /\ k = "search" => q[k] # "<array>"
     /\ k = "type" => q[k] \in ContentTypes}

\* C6 as stated: the query called is that of the highest-precedence flag
\* present in the query string.
C6_PrecedenceOverPresentFlags ==
  resp.route = "GET /api/content" => resp.query = HighestPrecedence(Present(resp.req))

\* C6 as amended: the query called is that of the highest-precedence flag
\* that is usable (not empty, search a single string, type movie or series),
\* and the answer is the result of that query and no other.
C6_PrecedenceOverUsableFlags ==
  resp.route = "GET /api/content" =>
    /\ resp.query = HighestPrecedence(Usable(resp.req))
    /\ resp.body = runQuery(content, resp.query, resp.req)

\* two usable flags were given and the catalog has a row to return
C6_Witness ==
  /\ resp.route = "GET /api/content"
  /\ Cardinality(Usable(resp.req)) = 2
  /\ resp.body # <<>>

\* the step in which request p of GET /api/content/:id runs its increment
\* and answers
Finishes(p) == view[p].pc = "found" /\ view'[p].pc = "idle"

\* C7: a request for an id without active row is answered 404 and
\* changes no viewCount; a request that found an active row is answered with
\* it and raises that row's viewCount by one and no other row's.
C7_ViewAlwaysCounts ==
  [][\A p \in Viewers :
       /\ \A id \in ContentIds :
            (ViewLookup(p, id) /\ getContentById(content, id) = <<>>) =>
              resp'.status = 404 /\ content' = content
       /\ Finishes(p) =>
            /\ resp'.status = 200 /\ resp'.body = view[p].content
            /\ view[p].id \in DOMAIN content'
            /\ \A i \in DOMAIN content' :
                 content'[i].viewCount =
                   content[i].viewCount + (IF i = view[p].id THEN 1 ELSE 0)]_vars

\* What GET /api/content/:id does guarantee: a lookup that finds no active
\* row answers 404 and writes nothing; a lookup that finds one keeps that
\* row; the finishing step answers with the row kept, removes no row, and
\* adds one to the viewCount of the requested row if it still exists and
\* changes nothing else.
C7_ViewCountsExistingRow ==
  [][\A p \in Viewers :
       /\ \A id \in ContentIds :
            (ViewLookup(p, id) /\ getContentById(content, id) = <<>>) =>
              resp'.status = 404 /\ content' = content
       /\ \A id \in ContentIds :
            (ViewLookup(p, id) /\ getContentById(content, id) # <<>>) =>
              view'[p].content = <<content[id]>> /\ content' = content
       /\ Finishes(p) =>
            /\ resp'.status = 200 /\ resp'.body = view[p].content
            /\ DOMAIN content' = DOMAIN content
            /\ \A i \in DOMAIN content :
                 content'[i] =
                   [content[i] EXCEPT !.viewCount =
                      @ + (IF i = view[p].id THEN 1 ELSE 0)]]_vars

\* a request has just been answered with the row it read, over a catalog
\* of two rows of which only the requested one has been viewed
C7_Witness ==
  /\ resp.route = "GET /api/content/:id" /\ resp.status = 200
  /\ Cardinality(DOMAIN content) = 2
  /\ content[resp.req.id].viewCount = 1
  /\ \A i \in DOMAIN content \ {resp.req.id} : content[i].viewCount = 0

\* C8: a body that fails its endpoint's schema is answered 400 and writes
\* no row (on the admin endpoints: once the password has been accepted).
C8_ValidationAnswers400 ==
  /\ [](/\ (/\ resp.route = "POST /api/favorites"
            /\ ~insertFavoriteSchemaOk(Spread(resp.req.body, [userId |-> resp.req.user])))
             => resp.status = 400
        /\ (/\ resp.route = "POST /api/admin/content"
            /\ SubmittedSecret(resp.req.body)
            /\ ~insertContentSchemaOk(Payload(resp.req.body, "content"), FALSE))
             => resp.status = 400
        /\ (/\ resp.route = "PUT /api/admin/content/:id"
            /\ SubmittedSecret(resp.req.body)
            /\ ~insertContentSchemaOk(Payload(resp.req.body, "content"), TRUE))
             => resp.status = 400
        /\ (/\ resp.route = "POST /api/admin/episodes"
            /\ SubmittedSecret(resp.req.body)
            /\ ~insertEpisodeSchemaOk(Payload(resp.req.body, "episode")))
             => resp.status = 400)
  /\ [][resp'.status = 400 => UNCHANGED <<content, nextId, episodes, favorites>>]_vars

\* C9: no step lowers the viewCount of a row that exists before and after.
C9_ViewCountMonotonic ==
  [][\A id \in DOMAIN content \cap DOMAIN content' :
       content'[id].viewCount >= content[id].viewCount]_vars

\* a row that has been viewed has just been updated with a payload that
\* carries a viewCount
C9_Witness ==
  /\ resp.route = "PUT /api/admin/content/:id" /\ resp.status = 200
  /\ "viewCount" \in DOMAIN resp.req.body
  /\ resp.req.id \in DOMAIN content
  /\ content[resp.req.id].viewCount > 0

\* C10: a step that raises the viewCount of a row starts in a state where
\* the row's isActive is true.
C10_IncrementOnlyWhileActive ==
  [][\A id \in DOMAIN content \cap DOMAIN content' :
       content'[id].viewCount > content[id].viewCount
         => content[id].isActive = "true"]_vars

====
